---- MODULE Spec2Model ----
(***************************************************************************)
(* Empirical Mode Decomposition (pyhht): the decomposer of emd.py and the  *)
(* extrema / boundary-mirror helpers of utils.py.                          *)
(*                                                                         *)
(* Samples are fixed-point integers (one unit = one quantum of amplitude). *)
(* Sample vectors are functions over the numpy indices 0..N-1; index       *)
(* arrays (indmin, indmax, ...) are sequences of numpy indices.            *)
(***************************************************************************)
EXTENDS Integers, Sequences, FiniteSets, TLC

(***************************************************************************)
(* Bounds of the model.                                                    *)
(***************************************************************************)
\* number of samples of the signal
N == 6
\* largest value of the options maxiter, fixe, fixe_h and n_imfs
MaxOpt == 2
\* largest number of invocations of decompose on one instance
MaxCalls == 2

(***************************************************************************)
(* Program constants.                                                      *)
(***************************************************************************)
\* nbsym=2 in the signature of __init__
nbsym == 2
\* ndirs: number of projection directions in complex mode
ndirs == 1
\* threshold_1 = 0.05 = 1/Threshold1Inv
Threshold1Inv == 20
\* threshold_2 = 0.5 = 1/Threshold2Inv
Threshold2Inv == 2
\* alpha = 0.05 = 1/AlphaInv
AlphaInv == 20
\* the amplitude floor 1e-10 = 1/AmpFloorRoot^2
AmpFloorRoot == 100000

Idx == 0 .. (N - 1)
lx == N - 1
\* self.t = np.arange(np.max(x.shape))
t == [i \in Idx |-> i]

(***************************************************************************)
(* numpy helpers                                                           *)
(***************************************************************************)
\* a local name bound to a value: F applied to the value of v
With(v, F(_)) == CHOOSE y \in {F(a) : a \in {v}} : TRUE

Abs(a) == IF a < 0 THEN -a ELSE a
Min2(a, b) == IF a < b THEN a ELSE b
Max2(a, b) == IF a > b THEN a ELSE b

Zeros == [i \in Idx |-> 0]
VSub(a, b) == [i \in Idx |-> a[i] - b[i]]
VAdd(a, b) == [i \in Idx |-> a[i] + b[i]]
\* np.max(np.abs(v))
MaxAbs(v) == CHOOSE a \in {Abs(v[i]) : i \in Idx} : \A j \in Idx : Abs(v[j]) <= a
\* np.any(v)
AnyNonZero(v) == \E i \in Idx : v[i] # 0

\* a[::-1]
Rev(s) == [i \in 1 .. Len(s) |-> s[Len(s) + 1 - i]]
\* a[lo:hi] with Python's treatment of negative and out-of-range bounds
PySlice(s, lo, hi) ==
    LET n == Len(s)
        norm(i) == IF i < 0 THEN (IF i + n < 0 THEN 0 ELSE i + n)
                   ELSE IF i > n THEN n ELSE i
        a == norm(lo)
        b == norm(hi)
    IN  IF a < b THEN SubSeq(s, a + 1, b) ELSE << >>
\* the ascending sequence of the members of a set of indices
RECURSIVE SortedSeq(_)
SortedSeq(S) ==
    IF S = {} THEN << >>
    ELSE With(CHOOSE a \in S : \A b \in S : a <= b,
              LAMBDA lo : << lo >> \o SortedSeq(S \ {lo}))
\* v[ind] for an index array ind
Take(v, ind) == [i \in 1 .. Len(ind) |-> v[ind[i]]]

(***************************************************************************)
(* utils.extr: strict interior extrema and zero crossings                  *)
(***************************************************************************)
\* scipy.signal.argrelmax(x)[0]: strictly greater than both neighbours
argrelmax(v) ==
    SortedSeq({i \in 1 .. (N - 2) : v[i] > v[i - 1] /\ v[i] > v[i + 1]})
\* scipy.signal.argrelmin(x)[0]
argrelmin(v) ==
    SortedSeq({i \in 1 .. (N - 2) : v[i] < v[i - 1] /\ v[i] < v[i + 1]})
\* len(indmin) + len(indmax)
NExtrema(v) == Len(argrelmin(v)) + Len(argrelmax(v))
\* len(indzer): sign changes, plus one index per run of exact zeros
NZeroCross(v) ==
    LET cross == {i \in 0 .. (N - 2) : v[i] * v[i + 1] < 0}
        runs  == {i \in Idx : v[i] = 0 /\ (i = 0 \/ v[i - 1] # 0)}
    IN  Cardinality(cross) + Cardinality(runs)
(***************************************************************************)
(* Outcomes of a call: exc = "none" for a normal return, otherwise the     *)
(* exception raised (class, and message where the callers test it).        *)
(***************************************************************************)
NoExc == "none"
NotEnoughExtrema == "ValueError: Not enough extrema."
MGreaterK == "TypeError: m > k must hold"
ErrorOnInputData == "ValueError: Error on input data"
IndexErr == "IndexError"
BugExc == "Exception: Bug"
UnboundLocal == "UnboundLocalError"
AttributeErr == "AttributeError"
\* self.mean_and_amplitude() called without m
TypeErrArgs == "TypeError: mean_and_amplitude() takes exactly 2 arguments (1 given)"
\* a list compared with a number under Python 3
TypeErrListCmp == "TypeError: '<' not supported between instances of 'list' and 'int'"

(***************************************************************************)
(* utils.boundary_conditions                                               *)
(***************************************************************************)
BCRaise(e) == [exc |-> e, tmin |-> << >>, tmax |-> << >>, zmin |-> << >>, zmax |-> << >>]

\* lines 102-121: the extrema mirrored at the left end and their pivot
BCLeft(xv, indmin, indmax) ==
    IF indmax[1] < indmin[1]
    THEN IF xv[0] > xv[indmin[1]]
         THEN [lmax |-> Rev(PySlice(indmax, 1, Min2(Len(indmax), nbsym + 1))),
               lmin |-> Rev(PySlice(indmin, 0, Min2(Len(indmin), nbsym))),
               lsym |-> indmax[1]]
         ELSE [lmax |-> Rev(PySlice(indmax, 1, Min2(Len(indmax), nbsym))),
               lmin |-> Rev(PySlice(indmin, 0, Min2(Len(indmin), nbsym - 1))) \o << 1 >>,
               lsym |-> 1]
    ELSE IF xv[0] < xv[indmax[1]]
         THEN [lmax |-> Rev(PySlice(indmax, 0, Min2(Len(indmax), nbsym))),
               lmin |-> Rev(PySlice(indmin, 1, Min2(Len(indmin), nbsym + 1))),
               lsym |-> indmin[1]]
         ELSE [lmax |-> Rev(PySlice(indmax, 0, Min2(Len(indmin), nbsym - 1))) \o << 1 >>,
               lmin |-> Rev(PySlice(indmin, 0, Min2(Len(indmax), nbsym))),
               lsym |-> 1]

\* lines 123-142: the extrema mirrored at the right end and their pivot
BCRight(xv, indmin, indmax) ==
    LET nmax == Len(indmax)
        nmin == Len(indmin)
    IN  IF indmax[nmax] < indmin[nmin]
        THEN IF xv[lx] < xv[indmax[nmax]]
             THEN [rmax |-> Rev(PySlice(indmax, Max2(nmax - nbsym + 1, 1) - 1, nmax)),
                   rmin |-> Rev(PySlice(indmin, Max2(nmin - nbsym, 1) - 1, -1)),
                   rsym |-> indmin[nmin]]
             ELSE [rmax |-> << lx >> \o Rev(PySlice(indmax, Max2(nmax - nbsym + 1, 0), nmax)),
                   rmin |-> Rev(PySlice(indmin, Max2(nmin - nbsym, 0), nmin)),
                   rsym |-> lx]
        ELSE IF xv[lx] > xv[indmin[nmin]]
             THEN [rmax |-> Rev(PySlice(indmax, Max2(nmax - nbsym - 1, 0), -1)),
                   rmin |-> Rev(PySlice(indmin, Max2(nmin - nbsym, 0), nmin)),
                   rsym |-> indmax[nmax]]
             ELSE [rmax |-> Rev(PySlice(indmax, Max2(nmax - nbsym, 0), nmax)),
                   rmin |-> << lx >> \o Rev(PySlice(indmin, Max2(nmin - nbsym + 1, 0), nmin)),
                   rsym |-> lx]

\* 2 * t[sym] - t[ind]
Mirror(sym, ind) == [i \in 1 .. Len(ind) |-> 2 * t[sym] - t[ind[i]]]

\* line 150: outcome of (tlmin[0] > t[0]) or (tlmax[0] > t[1])
BCLeftShort(tlmin, tlmax) ==
    IF Len(tlmin) = 0 THEN IndexErr
    ELSE IF tlmin[1] > t[0] THEN "true"
    ELSE IF Len(tlmax) = 0 THEN IndexErr
    ELSE IF tlmax[1] > t[1] THEN "true" ELSE "false"

\* line 161: outcome of (trmin[-1] < t[lx]) or (trmax[-1] < t[lx])
BCRightShort(trmin, trmax) ==
    IF Len(trmin) = 0 THEN IndexErr
    ELSE IF trmin[Len(trmin)] < t[lx] THEN "true"
    ELSE IF Len(trmax) = 0 THEN IndexErr
    ELSE IF trmax[Len(trmax)] < t[lx] THEN "true" ELSE "false"

\* lines 151-159: the left mirror widened, pivot forced to index 1
BCLeftFix(L, indmin, indmax) ==
    [lmax |-> IF L.lsym = indmax[1]
              THEN Rev(PySlice(indmax, 0, Min2(Len(indmax), nbsym))) ELSE L.lmax,
     lmin |-> IF L.lsym = indmax[1]
              THEN L.lmin ELSE Rev(PySlice(indmin, 0, Min2(Len(indmin), nbsym))),
     lsym |-> 1]

\* lines 162-173: the right mirror widened, pivot forced to the last sample
BCRightFix(R, indmin, indmax) ==
    [rmax |-> IF R.rsym = Len(indmax)
              THEN Rev(PySlice(indmax, Max2(Len(indmax) - nbsym + 1, 1), Len(indmax)))
              ELSE R.rmax,
     rmin |-> IF R.rsym = Len(indmax)
              THEN R.rmin
              ELSE Rev(PySlice(indmin, Max2(Len(indmax) - nbsym + 1, 1), Len(indmin))),
     rsym |-> lx]

\* lines 175-188: the three segments of each output, concatenated
BCAssemble(L, R, z, indmin, indmax) ==
    [exc  |-> NoExc,
     tmin |-> Mirror(L.lsym, L.lmin) \o Take(t, indmin) \o Mirror(R.rsym, R.rmin),
     tmax |-> Mirror(L.lsym, L.lmax) \o Take(t, indmax) \o Mirror(R.rsym, R.rmax),
     zmin |-> Take(z, L.lmin) \o Take(z, indmin) \o Take(z, R.rmin),
     zmax |-> Take(z, L.lmax) \o Take(z, indmax) \o Take(z, R.rmax)]

\* lines 150-188, given the mirrors of lines 102-142 and the outcomes of the
\* tests of lines 150 and 161
BCCheck(L0, R0, lshort, rshort, z, indmin, indmax) ==
    IF lshort = IndexErr THEN BCRaise(IndexErr)
    ELSE IF lshort = "true" /\ L0.lsym = 1 THEN BCRaise(BugExc)
    ELSE IF rshort = IndexErr THEN BCRaise(IndexErr)
    ELSE IF rshort = "true" /\ R0.rsym = lx THEN BCRaise(BugExc)
    ELSE BCAssemble(IF lshort = "true" THEN BCLeftFix(L0, indmin, indmax) ELSE L0,
                    IF rshort = "true" THEN BCRightFix(R0, indmin, indmax) ELSE R0,
                    z, indmin, indmax)

\* lines 99-188, given indmin and indmax
BCMirror(xv, z, indmin, indmax) ==
    IF Len(indmin) + Len(indmax) < 3 THEN BCRaise(NotEnoughExtrema)
    \* line 102, indmax[0] < indmin[0] on an empty array
    ELSE IF Len(indmax) = 0 \/ Len(indmin) = 0 THEN BCRaise(IndexErr)
    ELSE With(<< BCLeft(xv, indmin, indmax), BCRight(xv, indmin, indmax) >>,
              LAMBDA LR :
                  BCCheck(LR[1], LR[2],
                          BCLeftShort(Mirror(LR[1].lsym, LR[1].lmin),
                                      Mirror(LR[1].lsym, LR[1].lmax)),
                          BCRightShort(Mirror(LR[2].rsym, LR[2].rmin),
                                       Mirror(LR[2].rsym, LR[2].rmax)),
                          z, indmin, indmax))

boundary_conditions(xv, z) ==
    With(<< argrelmin(xv), argrelmax(xv) >>,
         LAMBDA ind : BCMirror(xv, z, ind[1], ind[2]))
(***************************************************************************)
(* State of an EmpiricalModeDecomposition instance and of its decompose()  *)
(***************************************************************************)
VARIABLES
    x,                \* self.x
    residue,          \* self.residue
    imf,              \* self.imf
    nbits,            \* self.nbits
    nbit,             \* self.nbit
    NbIt,             \* self.NbIt
    k,                \* self.k
    maxiter,          \* self.maxiter
    fixe,             \* self.fixe
    fixe_h,           \* self.fixe_h
    n_imfs,           \* self.n_imfs
    is_mode_complex,  \* self.is_mode_complex: 0 (False), 1 (True) or 2
    py,               \* major version of the interpreter running the code
    dev,              \* deviation of the spline backend from the chord
    m,                \* decompose: the current mode
    stop_sift,        \* decompose: stop_sift
    moyenne,          \* decompose: moyenne
    stop_count,       \* stop_sifting: stop_count after the last call
    pc,               \* decompose: position
    exc,              \* the exception decompose raised, or "none"
    diag,             \* the last diagnostic message emitted
    result,           \* the value decompose returned
    calls,            \* the number of times decompose was invoked on the instance
    x_nonreal,        \* __init__: whether x has a sample that is not real
    is_mode_complex_arg   \* __init__: the argument is_mode_complex: "None", "1", "2"

vars == << x, residue, imf, nbits, nbit, NbIt, k, maxiter, fixe, fixe_h, n_imfs,
           is_mode_complex, py, dev, m, stop_sift, moyenne, stop_count, pc, exc,
           diag, result, calls, x_nonreal, is_mode_complex_arg >>

(***************************************************************************)
(* scipy.interpolate.splrep / splev, called by mean_and_amplitude.         *)
(* The interpolant is outside the repository: it is modelled as the chord  *)
(* through the knots, exact at the knots and off by dev between them.      *)
(***************************************************************************)
StrictlyIncreasing(s) == \A i \in 1 .. (Len(s) - 1) : s[i] < s[i + 1]

\* splrep(tk, zk): the exception raised, or "none"
splrep(tk, zk) ==
    IF Len(tk) <= 3 THEN MGreaterK
    ELSE IF ~StrictlyIncreasing(tk) THEN ErrorOnInputData
    ELSE NoExc

\* splev(self.t, splrep(tk, zk)) for strictly increasing knots
splev(tk, zk) ==
    LET n == Len(tk)
        seg(u) == IF u <= tk[1] THEN 1
                  ELSE IF u >= tk[n] THEN n - 1
                  ELSE CHOOSE j \in 1 .. (n - 1) : tk[j] <= u /\ u < tk[j + 1]
        chord(u) == LET j == seg(u)
                    IN  zk[j] + ((zk[j + 1] - zk[j]) * (u - tk[j])) \div (tk[j + 1] - tk[j])
    IN  [i \in Idx |-> IF \E j \in 1 .. n : tk[j] = t[i]
                       THEN zk[CHOOSE j \in 1 .. n : tk[j] = t[i]]
                       ELSE chord(t[i]) + dev]

(***************************************************************************)
(* EmpiricalModeDecomposition.mean_and_amplitude                           *)
(***************************************************************************)
MARaise(e) == [exc |-> e, envmoy |-> Zeros, nem |-> 0, nzm |-> 0,
               sxnum |-> Zeros, sxden |-> Zeros]

\* real(exp(-1j * phi) * m) for a real m and phi = k * pi / ndirs, up to a
\* positive factor (directions 0 and pi/2 only, cos(pi/2) being 6e-17 > 0)
Project(mv, d) == mv

\* real(exp(1j * phi)) as stored into the real rows envmin[k], envmax[k]
RotateBack(d) == IF d = 0 THEN 1 ELSE 0

\* one direction (or the real mode): the two envelopes, or the exception
Envelopes(y, z) ==
    With(boundary_conditions(y, z),
         LAMBDA bc :
             IF bc.exc # NoExc THEN [exc |-> bc.exc]
             ELSE IF splrep(bc.tmin, bc.zmin) # NoExc THEN [exc |-> splrep(bc.tmin, bc.zmin)]
             ELSE IF splrep(bc.tmax, bc.zmax) # NoExc THEN [exc |-> splrep(bc.tmax, bc.zmax)]
             ELSE [exc |-> NoExc,
                   envmin |-> splev(bc.tmin, bc.zmin),
                   envmax |-> splev(bc.tmax, bc.zmax)])

\* lines 256-269
MeanAmpReal(mv) ==
    With(Envelopes(mv, mv),
         LAMBDA e :
             IF e.exc # NoExc THEN MARaise(e.exc)
             ELSE [exc |-> NoExc,
                   envmoy |-> [i \in Idx |-> (e.envmin[i] + e.envmax[i]) \div 2],
                   nem |-> NExtrema(mv),
                   nzm |-> NZeroCross(mv),
                   sxnum |-> [i \in Idx |-> Abs(e.envmin[i] + e.envmax[i])],
                   sxden |-> [i \in Idx |-> Abs(e.envmax[i] - e.envmin[i])]])

\* the rows envmin[d], envmax[d] of one direction added to the sums over the
\* directions before it: acc.sum is the sum of envmin + envmax, acc.dif the sum
\* of abs(envmax - envmin); rot is the factor the rows were stored with
AddDir(acc, e, rot) ==
    IF acc.exc # NoExc THEN acc
    ELSE IF e.exc # NoExc THEN [exc |-> e.exc, sum |-> Zeros, dif |-> Zeros]
    ELSE [exc |-> NoExc,
          sum |-> [i \in Idx |-> acc.sum[i] + rot * (e.envmin[i] + e.envmax[i])],
          dif |-> [i \in Idx |-> acc.dif[i] + Abs(rot * (e.envmax[i] - e.envmin[i]))]]

\* the loop over the directions 0..d: the sums, or the first exception raised
RECURSIVE SumDirs(_, _, _)
SumDirs(mv, variant, d) ==
    IF d < 0 THEN [exc |-> NoExc, sum |-> Zeros, dif |-> Zeros]
    ELSE With(<< SumDirs(mv, variant, d - 1), Envelopes(Project(mv, d), mv) >>,
              LAMBDA p : AddDir(p[1], p[2], IF variant = 2 THEN RotateBack(d) ELSE 1))

\* lines 207-254; variant = 1 or 2
MeanAmpComplex(mv, variant) ==
    With(SumDirs(mv, variant, ndirs - 1),
         LAMBDA s :
             IF s.exc # NoExc THEN MARaise(s.exc)
             ELSE [exc |-> NoExc,
                   envmoy |-> [i \in Idx |-> IF variant = 2 THEN s.sum[i] \div ndirs
                                             ELSE s.sum[i] \div (2 * ndirs)],
                   nem |-> [d \in 0 .. (ndirs - 1) |-> NExtrema(Project(mv, d))],
                   nzm |-> [d \in 0 .. (ndirs - 1) |-> NZeroCross(Project(mv, d))],
                   sxnum |-> [i \in Idx |-> IF variant = 2 THEN 2 * Abs(s.sum[i])
                                            ELSE Abs(s.sum[i])],
                   sxden |-> s.dif])

mean_and_amplitude(mv) ==
    IF is_mode_complex = 0 THEN MeanAmpReal(mv)
    ELSE IF is_mode_complex = 1 THEN MeanAmpComplex(mv, 1)
    ELSE MeanAmpComplex(mv, 2)
(***************************************************************************)
(* EmpiricalModeDecomposition.stop_sifting                                 *)
(***************************************************************************)
SSReturn(stop, moy, cnt) == [exc |-> NoExc, stop |-> stop, moyenne |-> moy, count |-> cnt]
SSRaise(e) == [exc |-> e, stop |-> FALSE, moyenne |-> Zeros, count |-> 0]

\* lines 308-310: sx = |envmoy| / amp against threshold_1, alpha, threshold_2
StillSifting(r) ==
    \/ Cardinality({i \in Idx : r.sxnum[i] * Threshold1Inv > r.sxden[i]}) * AlphaInv > N
    \/ \E i \in Idx : r.sxnum[i] * Threshold2Inv > r.sxden[i]

\* lines 284-298: the fixe_h regime; stop_count is a local that starts at 0
StopSiftingFixeH(mv) ==
    With(mean_and_amplitude(mv),
         LAMBDA r :
             IF r.exc # NoExc THEN SSReturn(TRUE, Zeros, 0)
             \* abs(nzm - nem) on two lists raises TypeError, caught by the bare except
             ELSE IF is_mode_complex # 0 THEN SSReturn(TRUE, Zeros, 0)
             ELSE IF Abs(r.nzm - r.nem) > 1 THEN SSReturn(FALSE, r.envmoy, 0)
             ELSE SSReturn(1 = fixe_h, r.envmoy, 1))

\* lines 299-314 with the "Not enough extrema." clause missing
StopSiftingDefaultUncaught(mv) ==
    With(mean_and_amplitude(mv),
         LAMBDA r :
             IF r.exc = MGreaterK THEN SSReturn(TRUE, Zeros, 0)
             ELSE IF r.exc # NoExc THEN SSRaise(r.exc)
             ELSE SSReturn(~(StillSifting(r) /\ (is_mode_complex # 0 \/ r.nem > 2))
                               /\ (is_mode_complex # 0 \/ ~(Abs(r.nzm - r.nem) > 1)),
                           r.envmoy, 0))

\* lines 299-314: the default regime
StopSiftingDefault(mv) ==
    With(mean_and_amplitude(mv),
         LAMBDA r :
             IF r.exc \in {MGreaterK, NotEnoughExtrema} THEN SSReturn(TRUE, Zeros, 0)
             \* swallowed by the except clause, then envmoy is read unassigned
             ELSE IF r.exc = ErrorOnInputData THEN SSRaise(UnboundLocal)
             ELSE IF r.exc # NoExc THEN SSRaise(r.exc)
             ELSE IF is_mode_complex # 0
             THEN \* nem is a list: nem > 2 is True under Python 2, a TypeError under 3
                  IF StillSifting(r)
                  THEN IF py = 2 THEN SSReturn(FALSE, r.envmoy, 0)
                       ELSE SSRaise(TypeErrListCmp)
                  ELSE SSReturn(TRUE, r.envmoy, 0)
             ELSE SSReturn(~(StillSifting(r) /\ r.nem > 2) /\ ~(Abs(r.nzm - r.nem) > 1),
                           r.envmoy, 0))

stop_sifting(mv) ==
    \* line 283: self.mean_and_amplitude() is called without its argument
    IF fixe # 0 THEN SSRaise(TypeErrArgs)
    ELSE IF fixe_h # 0 THEN StopSiftingFixeH(mv)
    ELSE StopSiftingDefault(mv)

(***************************************************************************)
(* EmpiricalModeDecomposition.stop_EMD and keep_decomposing                *)
(***************************************************************************)
\* stop_EMD asking for four extrema instead of three
stop_EMD_four ==
    IF is_mode_complex # 0
    THEN IF py = 2 THEN "false" ELSE TypeErrListCmp
    ELSE IF NExtrema(residue) < 4 THEN "true" ELSE "false"

\* the outcome of stop_EMD: "true", "false" or the exception raised
stop_EMD ==
    IF is_mode_complex # 0
    \* ner is a list: ner < 3 is False under Python 2, a TypeError under 3
    THEN IF py = 2 THEN "false" ELSE TypeErrListCmp
    ELSE IF NExtrema(residue) < 3 THEN "true" ELSE "false"

\* lines 319-320 with the budget test off by one
keep_decomposing_off_by_one ==
    stop_EMD = "false" /\ (k < n_imfs + 2 \/ n_imfs = 0)

\* lines 319-320, given that stop_EMD returned
keep_decomposing ==
    stop_EMD = "false" /\ (k < n_imfs + 1 \/ n_imfs = 0)
(***************************************************************************)
(* Construction: __init__                                                  *)
(***************************************************************************)
\* lines 142-144: self.is_mode_complex from the argument; left as None it is
\* not(np.all(np.isreal(x) * 2)), a bool: False is 0 and True is 1
InferModeComplex(arg, nonreal) ==
    IF arg = "None" THEN (IF nonreal THEN 1 ELSE 0)
    ELSE IF arg = "1" THEN 1 ELSE 2

\* sample values of the input signals considered
Amp == {-1, 0, 1}
\* deviations of the spline backend considered
Dev == {-1, 0, 1}
\* the outer loop runs at most maxiter + 1 times in real mode; the model
\* follows it a little further and no more
MaxModes == MaxOpt + 3

Init ==
    /\ x \in [Idx -> Amp]
    /\ residue = x
    /\ imf = << >>
    /\ nbits = << >>
    /\ nbit = 0
    /\ NbIt = 0
    /\ k = 1
    /\ fixe \in 0 .. MaxOpt
    /\ fixe_h \in 0 .. MaxOpt
    \* line 136: "Cannot use both fixe and fixe_h modes"
    /\ ~(fixe # 0 /\ fixe_h # 0)
    \* line 134: self.maxiter = fixe
    /\ maxiter \in IF fixe # 0 THEN {fixe} ELSE 1 .. MaxOpt
    /\ n_imfs \in 0 .. MaxOpt
    /\ x_nonreal \in BOOLEAN
    /\ is_mode_complex_arg \in {"None", "1", "2"}
    \* an explicit 1 or 2 is followed on real signals; of a signal that is not
    \* real the samples x stand for the real parts
    /\ x_nonreal => is_mode_complex_arg = "None"
    \* lines 142-144
    /\ is_mode_complex = InferModeComplex(is_mode_complex_arg, x_nonreal)
    \* the version only decides comparisons of a list with a number, which
    \* the real mode never makes
    /\ py \in IF is_mode_complex = 0 THEN {3} ELSE {2, 3}
    /\ dev \in Dev
    /\ m = Zeros
    /\ stop_sift = FALSE
    /\ moyenne = Zeros
    /\ stop_count = 0
    /\ pc = "loop"
    /\ exc = NoExc
    /\ diag = "none"
    /\ result = << >>
    /\ calls = 1

(***************************************************************************)
(* decompose                                                               *)
(***************************************************************************)
\* line 337: np.max(np.abs(m)) < (1e-10) * np.max(np.abs(self.x))
AmplitudeTooSmall(mv) ==
    /\ MaxAbs(x) > 0
    /\ MaxAbs(mv) * AmpFloorRoot <= (MaxAbs(x) - 1) \div AmpFloorRoot

\* line 328: the test of the outer loop
KeepDecomposing ==
    /\ pc = "loop"
    /\ IF stop_EMD = TypeErrListCmp
       THEN /\ pc' = "raised"
            /\ exc' = TypeErrListCmp
            /\ m' = m
       ELSE IF keep_decomposing
       THEN /\ pc' = "mode"
            /\ m' = residue
            /\ exc' = exc
       ELSE /\ pc' = "finalize"
            /\ m' = m
            /\ exc' = exc
    /\ UNCHANGED << x, residue, imf, nbits, nbit, NbIt, k, maxiter, fixe, fixe_h,
                    n_imfs, is_mode_complex, py, dev, stop_sift, moyenne,
                    stop_count, diag, result, calls,
                    x_nonreal, is_mode_complex_arg >>

\* lines 334-342 with the return of line 342 missing
StartModeNoReturn ==
    /\ pc = "mode"
    /\ \E r \in {stop_sifting(m)} :
           IF r.exc # NoExc
           THEN /\ pc' = "raised"
                /\ exc' = r.exc
                /\ UNCHANGED << stop_sift, moyenne, stop_count, diag >>
           ELSE /\ stop_sift' = r.stop
                /\ moyenne' = r.moyenne
                /\ stop_count' = r.count
                /\ exc' = exc
                /\ pc' = "sift"
                /\ diag' = IF ~AmplitudeTooSmall(m) THEN diag
                           ELSE IF r.stop THEN "Force stopping EMD: amplitude too small."
                           ELSE "EMD Warning: Amplitude too small, stopping."
    /\ UNCHANGED << x, residue, imf, nbits, nbit, NbIt, k, maxiter, fixe, fixe_h,
                    n_imfs, is_mode_complex, py, dev, m, result, calls,
                    x_nonreal, is_mode_complex_arg >>

\* lines 334-342: first evaluation of the criterion, then the amplitude check
StartMode ==
    /\ pc = "mode"
    /\ \E r \in {stop_sifting(m)} :
           IF r.exc # NoExc
           THEN /\ pc' = "raised"
                /\ exc' = r.exc
                /\ UNCHANGED << stop_sift, moyenne, stop_count, diag >>
           ELSE /\ stop_sift' = r.stop
                /\ moyenne' = r.moyenne
                /\ stop_count' = r.count
                /\ exc' = exc
                /\ IF AmplitudeTooSmall(m)
                   THEN /\ pc' = "aborted"
                        /\ diag' = IF r.stop THEN "Force stopping EMD: amplitude too small."
                                   ELSE "EMD Warning: Amplitude too small, stopping."
                   ELSE /\ pc' = "sift"
                        /\ diag' = diag
    /\ UNCHANGED << x, residue, imf, nbits, nbit, NbIt, k, maxiter, fixe, fixe_h,
                    n_imfs, is_mode_complex, py, dev, m, result, calls,
                    x_nonreal, is_mode_complex_arg >>

\* lines 358-363: the criterion as evaluated inside the sifting loop
SiftCriterion(mv) ==
    \* stop_sifting_fixe and stop_sifting_fixe_h are not defined anywhere
    IF fixe # 0 THEN SSRaise(AttributeErr)
    ELSE IF fixe_h # 0 THEN SSRaise(AttributeErr)
    ELSE stop_sifting(mv)

\* lines 345-370: one iteration of the sifting loop
Sift ==
    /\ pc = "sift"
    /\ ~stop_sift /\ nbit < maxiter
    /\ m' = VSub(m, moyenne)
    /\ \E r \in {SiftCriterion(VSub(m, moyenne))} :
           IF r.exc # NoExc
           THEN /\ pc' = "raised"
                /\ exc' = r.exc
                /\ UNCHANGED << stop_sift, moyenne, stop_count, nbit, NbIt, diag >>
           ELSE /\ stop_sift' = r.stop
                /\ moyenne' = r.moyenne
                /\ stop_count' = r.count
                /\ nbit' = nbit + 1
                /\ NbIt' = NbIt + 1
                /\ diag' = IF nbit + 1 = maxiter - 1 /\ fixe = 0 /\ nbit + 1 > 100
                           THEN "Emd:warning, Forced stop of sifting"
                           ELSE diag
                /\ UNCHANGED << pc, exc >>
    /\ UNCHANGED << x, residue, imf, nbits, k, maxiter, fixe, fixe_h, n_imfs,
                    is_mode_complex, py, dev, result, calls,
                    x_nonreal, is_mode_complex_arg >>

\* line 377 with the residue left as it was
ResidueAfterStale(res, mode) == res

\* line 377: self.residue = self.residue - m
ResidueAfter(res, mode) == VSub(res, mode)

\* lines 372-378: the mode is emitted and taken out of the residue
ExtractIMF ==
    /\ pc = "sift"
    /\ stop_sift \/ nbit >= maxiter
    /\ k <= MaxModes
    /\ imf' = Append(imf, m)
    /\ nbits' = Append(nbits, nbit)
    /\ k' = k + 1
    /\ residue' = ResidueAfter(residue, m)
    /\ pc' = "loop"
    /\ UNCHANGED << x, nbit, NbIt, maxiter, fixe, fixe_h, n_imfs, is_mode_complex,
                    py, dev, m, stop_sift, moyenne, stop_count, exc, diag, result, calls,
                    x_nonreal, is_mode_complex_arg >>

\* lines 380-382
Finalize ==
    /\ pc = "finalize"
    /\ imf' = IF AnyNonZero(residue) THEN Append(imf, residue) ELSE imf
    /\ result' = imf'
    /\ pc' = "returned"
    /\ UNCHANGED << x, residue, nbits, nbit, NbIt, k, maxiter, fixe, fixe_h, n_imfs,
                    is_mode_complex, py, dev, m, stop_sift, moyenne, stop_count,
                    exc, diag, calls,
                    x_nonreal, is_mode_complex_arg >>

Next == KeepDecomposing \/ StartMode \/ Sift \/ ExtractIMF \/ Finalize

Spec == Init /\ [][Next]_vars

\* line 323: decompose is invoked again on the same instance once an invocation
\* has returned; nothing of the instance is reset on entry
Reinvoke ==
    /\ pc \in {"returned", "aborted"}
    /\ calls < MaxCalls
    /\ calls' = calls + 1
    /\ pc' = "loop"
    /\ UNCHANGED << x, residue, imf, nbits, nbit, NbIt, k, maxiter, fixe, fixe_h,
                    n_imfs, is_mode_complex, py, dev, m, stop_sift, moyenne,
                    stop_count, exc, diag, result,
                    x_nonreal, is_mode_complex_arg >>

NextAgain == Next \/ Reinvoke

\* an instance whose decompose is invoked up to MaxCalls times
SpecAgain == Init /\ [][NextAgain]_vars

\* the decomposer of a real signal with the default criterion: fixe, fixe_h and
\* is_mode_complex left as the constructor sets them
InitDefault == Init /\ is_mode_complex = 0 /\ fixe = 0 /\ fixe_h = 0

SpecDefault == InitDefault /\ [][Next]_vars
(***************************************************************************)
(* Properties                                                              *)
(***************************************************************************)
\* the IMFs emitted so far: self.k counts them from 1
Emitted == SubSeq(imf, 1, k - 1)

RECURSIVE RowSum(_)
RowSum(rows) == IF rows = << >> THEN Zeros ELSE VAdd(rows[1], RowSum(Tail(rows)))

\* decompose has ended by returning (a matrix, or None after the amplitude check)
Terminated == pc \in {"returned", "aborted"}

\* C1: in every state of decompose the signal is the sum of the IMFs emitted
\* so far plus the residue, and the rows of a returned matrix sum to the signal
C1_Reconstruction ==
    /\ x = VAdd(RowSum(Emitted), residue)
    /\ pc = "returned" => RowSum(result) = x

\* C1 witness: a matrix is returned after a mode was sifted and a second emitted
C1_Witness ==
    /\ pc = "returned"
    /\ k >= 3
    /\ nbit > 0
    /\ imf[1] # x

\* C2: every invocation that terminates returns the K emitted IMFs followed by
\* the residue row exactly when the residue is not identically zero
C2_ReturnsMatrix ==
    Terminated =>
        result = Emitted \o (IF AnyNonZero(residue) THEN << residue >> ELSE << >>)

\* C3: with fixe > 0 no error is raised and every emitted IMF took exactly
\* fixe sift iterations
C3_FixeExact ==
    fixe > 0 =>
        /\ exc \notin {TypeErrArgs, AttributeErr}
        /\ \A i \in 1 .. Len(nbits) :
               nbits[i] - (IF i = 1 THEN 0 ELSE nbits[i - 1]) = fixe

\* C4: with fixe_h > 0 the evaluator can be called again and again within a
\* mode, and a mode stops on the criterion only once the counter is fixe_h
C4_FixeHCounter ==
    fixe_h > 0 =>
        /\ exc # AttributeErr
        /\ (pc = "sift" /\ stop_sift /\ stop_count > 0) => stop_count = fixe_h

\* C5: the count compared with maxiter starts at 0 for each new mode
C5_PerModeCount ==
    pc = "mode" => nbit = 0
\* C6: with n_imfs > 0 a mode is started only while fewer than n_imfs IMFs have
\* been emitted, so at most n_imfs IMFs are emitted and at most n_imfs + 1 rows
\* returned; with n_imfs = 0 only the extrema test ends the outer loop
C6_Budget ==
    /\ n_imfs > 0 => /\ k - 1 <= n_imfs
                     /\ pc \in {"mode", "sift"} => k - 1 < n_imfs
                     /\ pc = "returned" => Len(result) <= n_imfs + 1
    /\ (n_imfs = 0 /\ pc \in {"finalize", "returned"}) => stop_EMD = "true"

\* C6 witness: the budget, not the extrema test, ended the decomposition
C6_Witness ==
    /\ pc = "returned"
    /\ n_imfs > 0
    /\ k - 1 = n_imfs
    /\ Len(result) = n_imfs + 1
    /\ is_mode_complex = 0
    /\ NExtrema(residue) >= 3

\* C7 as claimed: whenever decompose terminates the final residue has at most
\* two interior extrema
C7_ResidueMonotone ==
    Terminated => NExtrema(residue) <= 2

\* C7 as amended: when decompose returns its matrix with the IMF budget not
\* exhausted (n_imfs = 0, or fewer than n_imfs IMFs emitted), the final residue
\* has at most two interior extrema
C7_ResidueMonotoneUnlessBudget ==
    (pc = "returned" /\ (n_imfs = 0 \/ k - 1 < n_imfs))
        => NExtrema(residue) <= 2

\* C7 witness: a real decomposition that emitted an IMF and was ended by the
\* extrema test, leaving a residue that is not zero
C7_Witness ==
    /\ pc = "returned"
    /\ is_mode_complex = 0
    /\ n_imfs = 0
    /\ k >= 2
    /\ AnyNonZero(residue)

\* C8: decompose runs to completion: unless it has terminated it can take
\* another step (checked on real signals under the default criterion, where
\* every run of the model is finite and none is cut short by MaxModes)
C8_RunsToCompletion ==
    Terminated \/ ENABLED Next

\* C9: when the amplitude check fires at the start of a mode, decompose ends at
\* once: no sift iteration, residue, IMF list and k untouched; and after the
\* abort nothing more happens
C9_UnderflowAborts ==
    /\ [][(pc = "mode" /\ AmplitudeTooSmall(m))
            => /\ pc' \in {"aborted", "raised"}
               /\ residue' = residue
               /\ imf' = imf
               /\ k' = k
               /\ nbit' = nbit
               /\ m' = m]_vars
    /\ [][pc # "aborted"]_vars

\* C9 witness: the abort happened after an IMF had been emitted
C9_Witness ==
    /\ pc = "aborted"
    /\ k >= 2
    /\ Len(imf) = k - 1
    /\ AmplitudeTooSmall(m)

\* C10: with fixe = 0, stop_sifting on a candidate with fewer than three
\* interior extrema raises nothing and returns stop = true with a zero mean,
\* and the candidate is then emitted as it is
C10_InsufficientExtrema ==
    /\ [][(fixe = 0 /\ pc = "mode" /\ NExtrema(m) < 3)
            => (pc' \in {"sift", "aborted"} /\ stop_sift' /\ moyenne' = Zeros)]_vars
    /\ [][(fixe = 0 /\ fixe_h = 0 /\ pc = "sift" /\ ~stop_sift /\ nbit < maxiter
             /\ NExtrema(VSub(m, moyenne)) < 3)
            => (pc' = "sift" /\ stop_sift' /\ moyenne' = Zeros)]_vars
    /\ [][(pc = "sift" /\ stop_sift) => imf' = Append(imf, m)]_vars

\* C10 witness: a sift iteration of a real decomposition left fewer than three
\* extrema, and the evaluator answered stop with a zero mean
C10_Witness ==
    /\ pc = "sift"
    /\ fixe = 0
    /\ is_mode_complex = 0
    /\ nbit > 0
    /\ NExtrema(m) < 3
    /\ stop_sift
    /\ moyenne = Zeros

\* C11: decompose invoked again on the same instance returns the rows the
\* invocation before it returned: no row added, duplicated or changed
C11_SameOnReinvocation ==
    [][(calls > 1 /\ pc = "finalize") => result' = result]_vars

\* tk is a left part, then the interior timestamps inner, then a right part,
\* in strictly ascending order throughout
MirrorOrdered(tk, inner) ==
    /\ StrictlyIncreasing(tk)
    /\ \E a \in 0 .. (Len(tk) - Len(inner)) :
           /\ SubSeq(tk, a + 1, a + Len(inner)) = inner
           /\ \A j \in 1 .. a : tk[j] < inner[1]
           /\ \A j \in (a + Len(inner) + 1) .. Len(tk) : tk[j] > inner[Len(inner)]

\* C12: for a mode candidate m with at least three interior extrema, whenever
\* boundary_conditions returns, tmin and tmax are each the left mirror, the
\* interior extrema and the right mirror in strictly ascending time order
C12_MirrorOrdering ==
    NExtrema(m) >= 3 =>
        \A bc \in {boundary_conditions(m, m)} :
            bc.exc = NoExc =>
                /\ MirrorOrdered(bc.tmin, Take(t, argrelmin(m)))
                /\ MirrorOrdered(bc.tmax, Take(t, argrelmax(m)))

\* C13: for a signal with a sample that is not real and is_mode_complex left
\* to be inferred, what mean_and_amplitude computed for the mode m is what the
\* variant-2 formulas give
C13_InferredVariantTwo ==
    (x_nonreal /\ is_mode_complex_arg = "None" /\ pc = "sift" /\ fixe = 0)
        => mean_and_amplitude(m) = MeanAmpComplex(m, 2)
====
